---- MODULE Spec2Model ----
(***************************************************************************)
(* crypto-tracker: the Hyperbee price store (database/hyperbeeClient.js),  *)
(* the Scheduler (components/scheduler.js), the data collection task       *)
(* (server.js) and the RPC handlers getLatestPrices, getHistoricalPrices    *)
(* and triggerDataCollection (rpcService.js).                              *)
(*                                                                         *)
(* Strings are sequences of one-character strings; Hyperbee orders its     *)
(* utf-8 keys bytewise, which Code and LexLeq reproduce.                   *)
(***************************************************************************)
EXTENDS Integers, Sequences, FiniteSets, Bags, TLC

VARIABLES
    store,       \* the Hyperbee: encoded key -> {averagePrice, exchanges}
    written,     \* history: <<pair, timestamp>> -> value of the last db.put that succeeded
    lastSaved,   \* the savePriceData call, if it is the call that returned last, and
                 \* what the key held before it ("none", the "same" value, an "other" value)
    res,         \* the read, if it is the call that returned last: arguments and result
    isRunning,   \* Scheduler.isRunning
    timerId,     \* Scheduler.timerId (0: null)
    timers,      \* the interval timers that are live in the event loop
    execs,       \* the runTask executions in flight: a bag of their origins and positions
    clock,       \* the last value Date.now() returned
    event,       \* the handler that ran last, the response it sent (if any) and,
                 \* when an execution ended in it, what that execution did
    rpc          \* the getLatestPrices / getHistoricalPrices handler in flight or
                 \* answered last: its request, its progress and its response

storeVars == <<store, written, lastSaved, res>>
schedVars == <<isRunning, timerId, timers, execs, clock, event>>
vars == <<store, written, lastSaved, res, isRunning, timerId, timers, execs, clock, event, rpc>>

----------------------------------------------------------------------------
(* Bounds of the model *)

\* the store holds at most this many records (the calls of SpecStore)
MaxRecords == 2
\* at most this many runTask executions are in flight at once
MaxInFlight == 2

\* timestamps on both sides of a power of ten, where `${timestamp}` grows a digit
Timestamps == {9, 10, 11}

\* "A", and a series whose name holds the key separator: "A/10"
PairA == <<"A">>
PairSlash == <<"A", "/", "1", "0">>
Pairs == {PairA, PairSlash}

\* a series named as the accessor of Object.prototype is: "__proto__"
PairProto == <<"_", "_", "p", "r", "o", "t", "o", "_", "_">>

\* what getTopCoins' request may answer: the symbols of the top coins, fewer
\* than five of them
FeedResponses == {<<>>, <<"A">>}

\* the same for runs that are taken one at a time
BatchFeedResponses == {<<>>, <<"A">>, <<"A", "B">>}

\* what getAveragePrice may answer
FeedValues == { [averagePrice |-> 50000, exchanges |-> <<"X", "Y">>] }

\* what a caller of savePriceData may write
Values ==
    { [averagePrice |-> 50000, exchanges |-> <<"X", "Y">>],
      [averagePrice |-> 51000, exchanges |-> <<"Z">>] }

----------------------------------------------------------------------------
(* Strings, as JavaScript and Hyperbee treat them *)

Digits == <<"0", "1", "2", "3", "4", "5", "6", "7", "8", "9">>

\* the first utf-8 byte of a character ('\xff' is U+00FF, bytes C3 BF)
Code ==
    [c \in {"-", "/", "A", "B", "D", "S", "T", "U", "_", "o", "p", "r", "t", "xff"}
            \cup {Digits[i] : i \in 1..10} |->
        CASE c = "-" -> 45
          [] c = "/" -> 47
          [] c = "A" -> 65
          [] c = "B" -> 66
          [] c = "D" -> 68
          [] c = "S" -> 83
          [] c = "T" -> 84
          [] c = "U" -> 85
          [] c = "_" -> 95
          [] c = "o" -> 111
          [] c = "p" -> 112
          [] c = "r" -> 114
          [] c = "t" -> 116
          [] c = "xff" -> 195
          [] OTHER -> 47 + (CHOOSE i \in 1..10 : Digits[i] = c)]

\* bytewise order of two keys (b4a.compare): a <= b
RECURSIVE LexLeq(_, _)
LexLeq(a, b) ==
    IF a = <<>> THEN TRUE
    ELSE IF b = <<>> THEN FALSE
    ELSE IF Code[Head(a)] # Code[Head(b)] THEN Code[Head(a)] < Code[Head(b)]
    ELSE LexLeq(Tail(a), Tail(b))

\* `${n}` of a non-negative integer
RECURSIVE NumberToString(_)
NumberToString(n) ==
    IF n < 10 THEN <<Digits[n + 1]>>
    ELSE NumberToString(n \div 10) \o <<Digits[(n % 10) + 1]>>

\* str.startsWith(prefix)
startsWith(str, prefix) ==
    /\ Len(prefix) <= Len(str)
    /\ SubSeq(str, 1, Len(prefix)) = prefix

\* str.split('/'): the pieces between the separators
RECURSIVE split(_)
split(str) ==
    IF \A i \in 1..Len(str) : str[i] # "/" THEN <<str>>
    ELSE LET i == CHOOSE j \in 1..Len(str) :
                      /\ str[j] = "/"
                      /\ \A k \in 1..(j - 1) : str[k] # "/"
         IN <<SubSeq(str, 1, i - 1)>> \o split(SubSeq(str, i + 1, Len(str)))

\* parseInt's answer for a string that does not start with a digit
NaN == -1

DigitValue(c) == Code[c] - 48
IsDigit(c) == Code[c] >= 48 /\ Code[c] <= 57

\* parseInt(str): the number its leading decimal digits spell
RECURSIVE parseDigits(_, _)
parseDigits(str, acc) ==
    IF str = <<>> \/ ~IsDigit(Head(str)) THEN acc
    ELSE parseDigits(Tail(str), acc * 10 + DigitValue(Head(str)))

parseInt(str) ==
    IF str = <<>> \/ ~IsDigit(Head(str)) THEN NaN ELSE parseDigits(str, 0)

----------------------------------------------------------------------------
(* The Hyperbee *)

\* `${pair}/${timestamp}`
KeyWithoutTimestamp(pair, timestamp) == pair \o <<"/">>
Key(pair, timestamp) == pair \o <<"/">> \o NumberToString(timestamp)

dbPutReplacesAll(db, key, value) == [k \in {key} |-> value]

\* db.put(key, value): an upsert
dbPut(db, key, value) ==
    [k \in (DOMAIN db) \cup {key} |-> IF k = key THEN value ELSE db[k]]

\* the least key of a non-empty set
MinKey(S) == CHOOSE k \in S : \A j \in S : LexLeq(k, j)

RECURSIVE SortKeys(_)
SortKeys(S) ==
    IF S = {} THEN <<>>
    ELSE LET k == MinKey(S) IN <<k>> \o SortKeys(S \ {k})

Reverse(s) == [i \in 1..Len(s) |-> s[Len(s) + 1 - i]]

\* db.createReadStream({gte, lte, reverse, limit}): the entries in key order;
\* limit < 0 is no limit
createReadStream(db, gte, lte, reverse, limit) ==
    LET inRange == {k \in DOMAIN db : LexLeq(gte, k) /\ LexLeq(k, lte)}
        asc == SortKeys(inRange)
        keys == IF reverse THEN Reverse(asc) ELSE asc
        n == IF limit < 0 \/ limit > Len(keys) THEN Len(keys) ELSE limit
    IN [i \in 1..n |-> [key |-> keys[i], value |-> db[keys[i]]]]

\* {pair, timestamp: parseInt(entry.key.split('/')[1]), ...entry.value}
Entry(pair, entry) ==
    [pair |-> pair,
     timestamp |-> parseInt(split(entry.key)[2]),
     averagePrice |-> entry.value.averagePrice,
     exchanges |-> entry.value.exchanges]

\* getLatestPrice: <<>> is null, <<e>> the entry; the stream either throws
\* before its first entry (streamOk = FALSE) or yields
getLatestPrice(db, pair, streamOk) ==
    LET prefix == pair \o <<"/">>
        stream == createReadStream(db, prefix, prefix \o <<"xff">>, TRUE, 1)
    IN IF ~streamOk \/ stream = <<>> THEN <<>> ELSE <<Entry(pair, stream[1])>>

\* results.sort((a, b) => a.timestamp - b.timestamp): stable
RECURSIVE SortByTimestamp(_)
SortByTimestamp(s) ==
    IF s = <<>> THEN <<>>
    ELSE LET i == CHOOSE j \in 1..Len(s) :
                      /\ \A k \in 1..Len(s) : s[j].timestamp <= s[k].timestamp
                      /\ \A k \in 1..(j - 1) : s[k].timestamp # s[j].timestamp
         IN <<s[i]>> \o SortByTimestamp(SubSeq(s, 1, i - 1) \o SubSeq(s, i + 1, Len(s)))

\* the stream of getHistoricalPrices
HistoricalStream(db, pair, fromTimestamp, toTimestamp) ==
    createReadStream(db, Key(pair, fromTimestamp), Key(pair, toTimestamp), FALSE, -1)

RECURSIVE SelectPair(_, _)
SelectPair(pair, entries) ==
    IF entries = <<>> THEN <<>>
    ELSE (IF startsWith(Head(entries).key, pair \o <<"/">>)
          THEN <<Entry(pair, Head(entries))>> ELSE <<>>)
         \o SelectPair(pair, Tail(entries))

\* getHistoricalPrices: the stream yields its first `yielded` entries (all of
\* them unless it throws)
getHistoricalPrices(db, pair, fromTimestamp, toTimestamp, yielded) ==
    LET stream == HistoricalStream(db, pair, fromTimestamp, toTimestamp)
    IN SortByTimestamp(SelectPair(pair, SubSeq(stream, 1, yielded)))

----------------------------------------------------------------------------
(* The calls *)

NoRead == [op |-> "none", pair |-> <<>>, from |-> 0, to |-> 0, ok |-> TRUE, result |-> <<>>]

\* savePriceData(db, {pair, timestamp, averagePrice, exchanges}); putOk: db.put
\* resolved, otherwise it threw and the catch logged it
savePriceData(pair, timestamp, value, putOk) ==
    /\ store' = IF putOk THEN dbPut(store, Key(pair, timestamp), value) ELSE store
    /\ written' = IF putOk
                  THEN [k \in (DOMAIN written) \cup {<<pair, timestamp>>} |->
                           IF k = <<pair, timestamp>> THEN value ELSE written[k]]
                  ELSE written
    /\ lastSaved' = <<[pair |-> pair, timestamp |-> timestamp, stored |-> putOk,
                       prior |-> IF <<pair, timestamp>> \notin DOMAIN written THEN "none"
                                 ELSE IF written[<<pair, timestamp>>] = value THEN "same"
                                 ELSE "other"]>>
    /\ res' = NoRead

CallSavePriceData ==
    \E pair \in Pairs, timestamp \in Timestamps, value \in Values, putOk \in BOOLEAN :
        /\ \/ Cardinality(DOMAIN store) < MaxRecords
           \/ Key(pair, timestamp) \in DOMAIN store
        /\ savePriceData(pair, timestamp, value, putOk)
        /\ UNCHANGED schedVars
        /\ UNCHANGED rpc

CallGetLatestPrice ==
    \E pair \in Pairs, streamOk \in BOOLEAN :
        /\ res' = [op |-> "getLatestPrice", pair |-> pair, from |-> 0, to |-> 0,
                   ok |-> streamOk, result |-> getLatestPrice(store, pair, streamOk)]
        /\ lastSaved' = <<>>
        /\ UNCHANGED <<store, written>>
        /\ UNCHANGED schedVars
        /\ UNCHANGED rpc

CallGetHistoricalPrices ==
    \E pair \in Pairs, from \in Timestamps, to \in Timestamps :
        \E yielded \in 0..Len(HistoricalStream(store, pair, from, to)) :
            LET result == getHistoricalPrices(store, pair, from, to, yielded)
            IN \E streamOk \in BOOLEAN :
                /\ streamOk => yielded = Len(HistoricalStream(store, pair, from, to))
                /\ res' = [op |-> "getHistoricalPrices", pair |-> pair, from |-> from,
                           to |-> to, ok |-> streamOk, result |-> result]
                /\ lastSaved' = <<>>
                /\ UNCHANGED <<store, written>>
                /\ UNCHANGED schedVars
                /\ UNCHANGED rpc

\* an execution of runTask() as it is launched: where it is (pc), the coins
\* left to price and the data points left to save; and the account of what it
\* did: the feed's answer, the instruments it was given, the prices it asked
\* for, the data points it resolved, the db.put calls it made, the data points
\* that were stored, and whether an error was logged on its way
NewRun(origin) ==
    [origin |-> origin, pc |-> "getTopCoins", coins |-> <<>>, results |-> <<>>,
     feed |-> "pending", instruments |-> <<>>, asked |-> 0, resolved |-> <<>>,
     puts |-> 0, saved |-> <<>>, failed |-> FALSE]

NoRun == [NewRun("none") EXCEPT !.pc = "none"]

NoEvent == [name |-> "none", id |-> 0, response |-> "none", run |-> NoRun]

\* no query handler was called yet
NoRequest ==
    [method |-> "none", payload |-> <<>>, todo |-> <<>>, list |-> <<>>, map |-> <<>>,
     reads |-> 0, failed |-> FALSE, response |-> "none"]

Init ==
    /\ store = <<>>
    /\ written = <<>>
    /\ lastSaved = <<>>
    /\ res = NoRead
    /\ isRunning = FALSE
    /\ timerId = 0
    /\ timers = {}
    /\ execs = EmptyBag
    /\ clock = CHOOSE t \in Timestamps : \A u \in Timestamps : t <= u
    /\ event = NoEvent
    /\ rpc = NoRequest

NextStore ==
    \/ CallSavePriceData
    \/ CallGetLatestPrice
    \/ CallGetHistoricalPrices

SpecStore == Init /\ [][NextStore]_vars

----------------------------------------------------------------------------
(* The Scheduler, the data collection task and the trigger *)

Handled(name, id, response) ==
    [name |-> name, id |-> id, response |-> response, run |-> NoRun]

\* the model can hold one more execution
CanLaunch == BagCardinality(execs) < MaxInFlight

\* what setInterval returns: a timer that is not live yet
NewTimer == CHOOSE t \in 1..(Cardinality(timers) + 1) :
                /\ t \notin timers
                /\ \A u \in 1..(t - 1) : u \in timers

\* no savePriceData and no read returned in this step
NoStoreCall == lastSaved' = <<>> /\ res' = NoRead /\ UNCHANGED <<store, written>>

\* runTask(), up to its first suspension: this.task() has called
\* fetchTopCryptoData, which awaits getTopCoins' request
runTask(origin) ==
    execs' = execs (+) SetToBag({NewRun(origin)})

\* execution e moves on to position next
moveOn(e, next) ==
    /\ execs' = (execs (-) SetToBag({e})) (+) SetToBag({next})
    /\ event' = Handled("io", 0, "none")

\* runTask()'s and the task's promises settle (neither ever rejects: the task
\* catches what it throws, and so does runTask); the trigger's handler, if it
\* awaits this execution, sends its response in the same turn. done: the
\* execution as it ends
settle(e, done) ==
    /\ execs' = execs (-) SetToBag({e})
    /\ event' = [name |-> "settled", id |-> 0,
                 response |-> IF e.origin = "demand" THEN "success" ELSE "none",
                 run |-> done]

startUnguarded ==
    /\ CanLaunch
    /\ runTask("scheduler")
    /\ timerId' = NewTimer
    /\ timers' = timers \cup {NewTimer}
    /\ isRunning' = TRUE
    /\ event' = Handled("start", 0, "none")
    /\ NoStoreCall
    /\ UNCHANGED <<clock, rpc>>

\* Scheduler.start()
start ==
    /\ isRunning \/ CanLaunch
    /\ IF isRunning
       THEN UNCHANGED <<isRunning, timerId, timers, execs>>
       ELSE /\ runTask("scheduler")
            /\ timerId' = NewTimer
            /\ timers' = timers \cup {NewTimer}
            /\ isRunning' = TRUE
    /\ event' = Handled("start", 0, "none")
    /\ NoStoreCall
    /\ UNCHANGED <<clock, rpc>>

stopKeepsTimerId ==
    /\ IF ~isRunning
       THEN UNCHANGED <<isRunning, timerId, timers>>
       ELSE /\ timers' = timers \ {timerId}
            /\ timerId' = timerId
            /\ isRunning' = FALSE
    /\ event' = Handled("stop", 0, "none")
    /\ NoStoreCall
    /\ UNCHANGED <<execs, clock, rpc>>

stopKeepsTimer ==
    /\ IF ~isRunning
       THEN UNCHANGED <<isRunning, timerId, timers>>
       ELSE /\ timers' = timers
            /\ timerId' = 0
            /\ isRunning' = FALSE
    /\ event' = Handled("stop", 0, "none")
    /\ NoStoreCall
    /\ UNCHANGED <<execs, clock, rpc>>

\* Scheduler.stop()
stop ==
    /\ IF ~isRunning
       THEN UNCHANGED <<isRunning, timerId, timers>>
       ELSE /\ timers' = timers \ {timerId}
            /\ timerId' = 0
            /\ isRunning' = FALSE
    /\ event' = Handled("stop", 0, "none")
    /\ NoStoreCall
    /\ UNCHANGED <<execs, clock, rpc>>

tickOnce ==
    \E t \in timers :
        /\ CanLaunch
        /\ runTask("scheduler")
        /\ event' = Handled("tick", t, "none")
        /\ NoStoreCall
        /\ isRunning' = FALSE
        /\ UNCHANGED <<timerId, timers, clock, rpc>>

\* a live interval timer fires: () => this.runTask()
tick ==
    \E t \in timers :
        /\ CanLaunch
        /\ runTask("scheduler")
        /\ event' = Handled("tick", t, "none")
        /\ NoStoreCall
        /\ UNCHANGED <<isRunning, timerId, timers, clock, rpc>>

\* Scheduler.runOnDemand(), up to its suspension on runTask()
runOnDemand == runTask("demand")

triggerRearms ==
    /\ CanLaunch
    /\ runOnDemand
    /\ event' = Handled("triggerDataCollection", 0, "none")
    /\ NoStoreCall
    /\ timerId' = NewTimer
    /\ timers' = (timers \ {timerId}) \cup {NewTimer}
    /\ isRunning' = TRUE
    /\ UNCHANGED <<clock, rpc>>

triggerWithoutAwait ==
    /\ CanLaunch
    /\ runTask("scheduler")
    /\ event' = Handled("triggerDataCollection", 0, "success")
    /\ NoStoreCall
    /\ UNCHANGED <<isRunning, timerId, timers, clock, rpc>>

\* the triggerDataCollection handler, up to its suspension on runOnDemand()
triggerDataCollection ==
    /\ CanLaunch
    /\ runOnDemand
    /\ event' = Handled("triggerDataCollection", 0, "none")
    /\ NoStoreCall
    /\ UNCHANGED <<isRunning, timerId, timers, clock, rpc>>

TopCoinsEmptyIsFailure(feeds) ==
    \E e \in BagToSet(execs), feedOk \in BOOLEAN, coins \in feeds :
        /\ e.pc = "getTopCoins"
        /\ ~feedOk => coins = <<>>
        /\ IF coins = <<>>
           THEN settle(e, [e EXCEPT !.pc = "thrown",
                                    !.feed = IF feedOk THEN "empty" ELSE "failed",
                                    !.failed = TRUE])
           ELSE moveOn(e, [e EXCEPT !.pc = "getAveragePrice", !.coins = coins,
                                    !.feed = "coins", !.instruments = coins])
        /\ NoStoreCall
        /\ UNCHANGED <<isRunning, timerId, timers, clock, rpc>>

\* getTopCoins' request is answered, or fails, which getTopCoins turns into
\* []; no coins: fetchTopCryptoData returns [] and the task is over
TopCoinsAnsweredFrom(feeds) ==
    \E e \in BagToSet(execs), feedOk \in BOOLEAN, coins \in feeds :
        /\ e.pc = "getTopCoins"
        /\ ~feedOk => coins = <<>>
        /\ IF coins = <<>>
           THEN settle(e, [e EXCEPT !.pc = "done",
                                    !.feed = IF feedOk THEN "empty" ELSE "failed",
                                    !.failed = ~feedOk])
           ELSE moveOn(e, [e EXCEPT !.pc = "getAveragePrice", !.coins = coins,
                                    !.feed = "coins", !.instruments = coins])
        /\ NoStoreCall
        /\ UNCHANGED <<isRunning, timerId, timers, clock, rpc>>

TopCoinsAnswered == TopCoinsAnsweredFrom(FeedResponses)

\* `${coin.symbol}-${targetCurrency}`
PairOf(symbol) == <<symbol, "-", "U", "S", "D", "T">>

\* getAveragePrice's request for the first coin left is answered: a price
\* (pushed with timestamp Date.now()) or null; then the 500 ms pause starts
AveragePriceAnswered ==
    \E e \in BagToSet(execs), priceOk \in BOOLEAN :
        /\ e.pc = "getAveragePrice"
        /\ IF priceOk
           THEN \E value \in FeedValues, now \in Timestamps :
                    LET dataPoint == [pair |-> PairOf(Head(e.coins)),
                                      timestamp |-> now, value |-> value]
                    IN /\ now >= clock
                       /\ clock' = now
                       /\ moveOn(e, [e EXCEPT !.pc = "pause",
                                              !.results = Append(@, dataPoint),
                                              !.asked = @ + 1,
                                              !.resolved = Append(@, dataPoint)])
           ELSE /\ moveOn(e, [e EXCEPT !.pc = "pause", !.asked = @ + 1,
                                       !.failed = TRUE])
                /\ UNCHANGED clock
        /\ NoStoreCall
        /\ UNCHANGED <<isRunning, timerId, timers, rpc>>

PauseOverRetries ==
    \E e \in BagToSet(execs) :
        /\ e.pc = "pause"
        /\ IF Tail(e.coins) # <<>> \/ Len(e.resolved) < e.asked
           THEN moveOn(e, [e EXCEPT !.pc = "getAveragePrice",
                                    !.asked = IF Len(e.resolved) < @ THEN @ - 1 ELSE @,
                                    !.coins = IF Len(e.resolved) < e.asked THEN @ ELSE Tail(@)])
           ELSE IF e.results # <<>>
           THEN moveOn(e, [e EXCEPT !.pc = "savePriceData", !.coins = <<>>])
           ELSE settle(e, [e EXCEPT !.pc = "done", !.coins = <<>>])
        /\ NoStoreCall
        /\ UNCHANGED <<isRunning, timerId, timers, clock, rpc>>

\* the pause is over: the next coin, or fetchTopCryptoData returns its results
\* and the task starts saving them (or is over, if there are none)
PauseOver ==
    \E e \in BagToSet(execs) :
        /\ e.pc = "pause"
        /\ IF Tail(e.coins) # <<>>
           THEN moveOn(e, [e EXCEPT !.pc = "getAveragePrice", !.coins = Tail(@)])
           ELSE IF e.results # <<>>
           THEN moveOn(e, [e EXCEPT !.pc = "savePriceData", !.coins = <<>>])
           ELSE settle(e, [e EXCEPT !.pc = "done", !.coins = <<>>])
        /\ NoStoreCall
        /\ UNCHANGED <<isRunning, timerId, timers, clock, rpc>>

PutSettledAborts ==
    \E e \in BagToSet(execs), putOk \in BOOLEAN :
        /\ e.pc = "savePriceData"
        /\ LET dataPoint == Head(e.results)
               next == [e EXCEPT !.results = Tail(@),
                                 !.puts = @ + 1,
                                 !.saved = IF putOk THEN Append(@, dataPoint) ELSE @,
                                 !.failed = @ \/ ~putOk]
           IN /\ savePriceData(dataPoint.pair, dataPoint.timestamp, dataPoint.value, putOk)
              /\ IF next.results # <<>> /\ putOk
                 THEN moveOn(e, next)
                 ELSE settle(e, [next EXCEPT !.pc = "done"])
        /\ UNCHANGED <<isRunning, timerId, timers, clock, rpc>>

\* db.put of the first data point left settles: savePriceData returns, and the
\* task saves the next one or is over
PutSettled ==
    \E e \in BagToSet(execs), putOk \in BOOLEAN :
        /\ e.pc = "savePriceData"
        /\ LET dataPoint == Head(e.results)
               next == [e EXCEPT !.results = Tail(@),
                                 !.puts = @ + 1,
                                 !.saved = IF putOk THEN Append(@, dataPoint) ELSE @,
                                 !.failed = @ \/ ~putOk]
           IN /\ savePriceData(dataPoint.pair, dataPoint.timestamp, dataPoint.value, putOk)
              /\ IF next.results # <<>>
                 THEN moveOn(e, next)
                 ELSE settle(e, [next EXCEPT !.pc = "done"])
        /\ UNCHANGED <<isRunning, timerId, timers, clock, rpc>>

TaskThrowsDisarms ==
    \E e \in BagToSet(execs) :
        /\ e.pc \in {"getTopCoins", "getAveragePrice"}
        /\ settle(e, [e EXCEPT !.pc = "thrown", !.failed = TRUE])
        /\ isRunning' = FALSE
        /\ timerId' = 0
        /\ timers' = {}
        /\ NoStoreCall
        /\ UNCHANGED <<clock, rpc>>

\* an exception is raised in the execution where neither getTopCoins' nor
\* getAveragePrice's own try covers it (their catch blocks read
\* error.message): it leaves fetchTopCryptoData, the task's catch logs it and
\* the task is over; what the task itself would throw, runTask's catch logs
TaskThrows ==
    \E e \in BagToSet(execs) :
        /\ e.pc \in {"getTopCoins", "getAveragePrice"}
        /\ settle(e, [e EXCEPT !.pc = "thrown", !.failed = TRUE])
        /\ NoStoreCall
        /\ UNCHANGED <<isRunning, timerId, timers, clock, rpc>>

Next ==
    \/ start
    \/ stop
    \/ tick
    \/ triggerDataCollection
    \/ TopCoinsAnswered
    \/ AveragePriceAnswered
    \/ PauseOver
    \/ PutSettled
    \/ TaskThrows

Spec == Init /\ [][Next]_vars

\* one run at a time, over feeds of up to two instruments: a trigger arrives
\* when no execution is in flight
triggerWhenIdle ==
    /\ execs = EmptyBag
    /\ triggerDataCollection

NextRun ==
    \/ triggerWhenIdle
    \/ TopCoinsAnsweredFrom(BatchFeedResponses)
    \/ AveragePriceAnswered
    \/ PauseOver
    \/ PutSettled
    \/ TaskThrows

SpecRun == Init /\ [][NextRun]_vars

----------------------------------------------------------------------------
(* Executions that can be told apart: one per origin, and the feed calls,  *)
(* pauses and writes they wait for all return                              *)

\* the steps an execution in flight takes
Progress == TopCoinsAnswered \/ AveragePriceAnswered \/ PauseOver \/ PutSettled

InFlight(origin) == \E e \in BagToSet(execs) : e.origin = origin

\* the execution of this origin takes a step
StepOf(origin) ==
    /\ Progress
    /\ \E e \in BagToSet(execs) :
           /\ e.origin = origin
           /\ CopiesIn(e, execs') < CopiesIn(e, execs)

\* start() and the timer, when the execution they launched before is over
startAfterRun == ~InFlight("scheduler") /\ start
tickAfterRun == ~InFlight("scheduler") /\ tick

\* a trigger, when the trigger before it was answered or given up
triggerAfterRun == ~InFlight("demand") /\ triggerDataCollection

callerGoesAwayAborts ==
    \E e \in BagToSet(execs) :
        /\ e.origin = "demand"
        /\ ~InFlight("orphan")
        /\ execs' = execs (-) SetToBag({e})
        /\ event' = Handled("callerGoesAway", 0, "none")
        /\ NoStoreCall
        /\ UNCHANGED <<isRunning, timerId, timers, clock, rpc>>

\* the caller of triggerDataCollection times out or closes its connection:
\* the handler still awaits runOnDemand(), nothing tells the execution
callerGoesAway ==
    \E e \in BagToSet(execs) :
        /\ e.origin = "demand"
        /\ ~InFlight("orphan")
        /\ execs' = (execs (-) SetToBag({e})) (+) SetToBag({[e EXCEPT !.origin = "orphan"]})
        /\ event' = Handled("callerGoesAway", 0, "none")
        /\ NoStoreCall
        /\ UNCHANGED <<isRunning, timerId, timers, clock, rpc>>

NextLive ==
    \/ startAfterRun
    \/ stop
    \/ tickAfterRun
    \/ triggerAfterRun
    \/ TopCoinsAnswered
    \/ AveragePriceAnswered
    \/ PauseOver
    \/ PutSettled
    \/ TaskThrows

SpecLive ==
    /\ Init
    /\ [][NextLive]_vars
    /\ WF_vars(StepOf("scheduler"))
    /\ WF_vars(StepOf("demand"))

\* triggers whose callers may go away, each execution beside the next one
NextAway ==
    \/ triggerAfterRun
    \/ callerGoesAway
    \/ TopCoinsAnswered
    \/ AveragePriceAnswered
    \/ PauseOver
    \/ PutSettled
    \/ TaskThrows

SpecAway ==
    /\ Init
    /\ [][NextAway]_vars
    /\ WF_vars(StepOf("demand"))
    /\ WF_vars(StepOf("orphan"))

----------------------------------------------------------------------------
(* The query handlers: getLatestPrices and getHistoricalPrices *)

\* what JSON.parse(reqRaw.toString('utf-8')) makes of a request: it throws
\* (parses = FALSE), or yields null, which cannot be destructured (object =
\* FALSE), or a value whose pairs, from and to have these types; an array's
\* elements, and the characters a string is iterated as, are in pairs
Payload(pairsType, pairs, fromType, from, toType, to) ==
    [parses |-> TRUE, object |-> TRUE, pairsType |-> pairsType, pairs |-> pairs,
     fromType |-> fromType, from |-> from, toType |-> toType, to |-> to]

NotJSON == [Payload("undefined", <<>>, "undefined", 0, "undefined", 0) EXCEPT !.parses = FALSE]
NullJSON == [Payload("undefined", <<>>, "undefined", 0, "undefined", 0) EXCEPT !.object = FALSE]

\* the requests of getLatestPrices that are tried: no JSON, null, {}, {pairs:
\* "A"}, and lists of series, one of them with a series twice
LatestRequests ==
    {NotJSON, NullJSON,
     Payload("undefined", <<>>, "undefined", 0, "undefined", 0),
     Payload("string", <<PairA>>, "undefined", 0, "undefined", 0)}
    \cup {Payload("array", pairs, "undefined", 0, "undefined", 0) :
             pairs \in {<<>>, <<PairA>>, <<PairA, PairA>>, <<PairA, PairSlash>>}}

\* the requests of getHistoricalPrices that are tried
HistoricalRequests ==
    {NotJSON, NullJSON,
     Payload("undefined", <<>>, "number", 9, "number", 10),
     Payload("string", <<PairA>>, "number", 9, "number", 10),
     Payload("array", <<PairA>>, "undefined", 0, "number", 10),
     Payload("array", <<PairA>>, "number", 9, "string", 0)}
    \cup {Payload("array", pairs, "number", window[1], "number", window[2]) :
             pairs \in {<<>>, <<PairA>>, <<PairA, PairSlash>>, <<PairProto>>},
             window \in {w \in Timestamps \X Timestamps : w[1] <= w[2]}}

ArrayIsAnything(payload) == TRUE

\* Array.isArray(pairs)
ArrayIsArray(payload) == payload.pairsType = "array"

\* the request throws before the loop: JSON.parse, the destructuring, or the
\* handler's own check of pairs (and of from and to)
Invalid(method, payload) ==
    \/ ~payload.parses
    \/ ~payload.object
    \/ ~ArrayIsArray(payload)
    \/ /\ method = "getHistoricalPrices"
       /\ payload.fromType # "number" \/ payload.toType # "number"

\* results[pair] = historicalData on results = {}: an own property, except for
\* '__proto__', which Object.prototype's setter takes
ObjectSet(obj, key, value) ==
    IF key = PairProto THEN obj
    ELSE [k \in (DOMAIN obj) \cup {key} |-> IF k = key THEN value ELSE obj[k]]

\* a handler is called (one query is followed at a time): an invalid request
\* is answered {error} by the catch, a request without series with the empty
\* results; otherwise the handler awaits the read of its first series
Respond(method, requests) ==
    \E payload \in requests :
        /\ rpc.method = "none" \/ rpc.response # "none"
        /\ rpc' = [NoRequest EXCEPT
                      !.method = method,
                      !.payload = payload,
                      !.todo = IF Invalid(method, payload) THEN <<>> ELSE payload.pairs,
                      !.response = IF Invalid(method, payload) THEN "error"
                                   ELSE IF payload.pairs = <<>> THEN "results"
                                   ELSE "none"]
        /\ NoStoreCall
        /\ UNCHANGED schedVars

getLatestPricesHandler == Respond("getLatestPrices", LatestRequests)

getHistoricalPricesHandler == Respond("getHistoricalPrices", HistoricalRequests)

\* the handler's progress when a read returned x (failed: its stream threw):
\* the next series, or the response JSON.stringify(results)
afterRead(failed) ==
    [rpc EXCEPT !.todo = Tail(@),
                !.reads = @ + 1,
                !.failed = @ \/ failed,
                !.response = IF Tail(rpc.todo) = <<>> THEN "results" ELSE "none"]

getLatestPricesReadCaches ==
    /\ rpc.method = "getLatestPrices"
    /\ rpc.response = "none"
    /\ \E streamOk \in BOOLEAN :
           rpc' = [afterRead(~streamOk) EXCEPT
                     !.list = Append(@, getLatestPrice(store, Head(rpc.todo), streamOk))]
    /\ store' = dbPut(store, Head(rpc.todo) \o <<"/">>, [averagePrice |-> 0, exchanges |-> <<>>])
    /\ lastSaved' = <<>>
    /\ res' = NoRead
    /\ UNCHANGED written
    /\ UNCHANGED schedVars

\* getLatestPrice of the first series left returns: results.push(latestPriceData)
getLatestPricesRead ==
    /\ rpc.method = "getLatestPrices"
    /\ rpc.response = "none"
    /\ \E streamOk \in BOOLEAN :
           rpc' = [afterRead(~streamOk) EXCEPT
                     !.list = Append(@, getLatestPrice(store, Head(rpc.todo), streamOk))]
    /\ NoStoreCall
    /\ UNCHANGED schedVars

\* getHistoricalPrices of the first series left returns: results[pair] = historicalData
getHistoricalPricesRead ==
    /\ rpc.method = "getHistoricalPrices"
    /\ rpc.response = "none"
    /\ LET pair == Head(rpc.todo)
           from == rpc.payload.from
           to == rpc.payload.to
       IN \E yielded \in 0..Len(HistoricalStream(store, pair, from, to)),
             streamOk \in BOOLEAN :
              /\ streamOk => yielded = Len(HistoricalStream(store, pair, from, to))
              /\ rpc' = [afterRead(~streamOk) EXCEPT
                            !.map = ObjectSet(@, pair,
                                        getHistoricalPrices(store, pair, from, to, yielded))]
    /\ NoStoreCall
    /\ UNCHANGED schedVars

\* a record is stored between the handlers' steps (savePriceData, called by
\* a run of the data collection task)
RecordStored ==
    \E pair \in Pairs, timestamp \in Timestamps, value \in FeedValues :
        /\ \/ Cardinality(DOMAIN store) < MaxRecords
           \/ Key(pair, timestamp) \in DOMAIN store
        /\ savePriceData(pair, timestamp, value, TRUE)
        /\ UNCHANGED schedVars
        /\ UNCHANGED rpc

\* the handlers, and the writes that may come between their reads
NextRpc ==
    \/ RecordStored
    \/ getLatestPricesHandler
    \/ getLatestPricesRead
    \/ getHistoricalPricesHandler
    \/ getHistoricalPricesRead

SpecRpc == Init /\ [][NextRpc]_vars

----------------------------------------------------------------------------
(* What was written, read back without the key encoding *)

\* the timestamps written for series s
TimestampsOf(s) == {k[2] : k \in {j \in DOMAIN written : j[1] = s}}

\* the record getLatestPrice and getHistoricalPrices owe for <<s, t>>
RecordOf(s, t) ==
    [pair |-> s, timestamp |-> t,
     averagePrice |-> written[<<s, t>>].averagePrice,
     exchanges |-> written[<<s, t>>].exchanges]

MaxOf(S) == CHOOSE t \in S : \A u \in S : u <= t

\* no series written so far holds the key separator in its name
SeparatorFree == \A k \in DOMAIN written : \A i \in 1..Len(k[1]) : k[1][i] # "/"

ToSet(seq) == {seq[i] : i \in 1..Len(seq)}

----------------------------------------------------------------------------
(* The store's claims *)

\* C3: getLatestPrice(s) returns the record of s with the numerically greatest
\* timestamp among those written for s, and null exactly when none was written
\* (stated for a read that did not fail and series names without '/').
C3_LatestIsNumericMaximum ==
    (res.op = "getLatestPrice" /\ res.ok /\ SeparatorFree) =>
        IF TimestampsOf(res.pair) = {} THEN res.result = <<>>
        ELSE res.result = <<RecordOf(res.pair, MaxOf(TimestampsOf(res.pair)))>>

\* C4: for two stored records of one series, the order of the encoded keys is
\* the numeric order of the timestamps, also across a digit-length boundary.
C4_KeyOrderIsTimestampOrder ==
    \A j \in DOMAIN written, k \in DOMAIN written :
        (j[1] = k[1] /\ j[2] < k[2]) =>
            /\ LexLeq(Key(j[1], j[2]), Key(k[1], k[2]))
            /\ Key(j[1], j[2]) # Key(k[1], k[2])

\* C5: getHistoricalPrices(s, from, to) returns exactly the stored records of s
\* with from <= timestamp <= to (stated for from <= to, a read that did not fail
\* and series names without '/').
C5_RangeIsExact ==
    (res.op = "getHistoricalPrices" /\ res.ok /\ res.from <= res.to /\ SeparatorFree) =>
        LET window == {t \in TimestampsOf(res.pair) : res.from <= t /\ t <= res.to}
        IN /\ ToSet(res.result) = {RecordOf(res.pair, t) : t \in window}
           /\ Len(res.result) = Cardinality(window)

\* C6: getHistoricalPrices(s, from, to) never returns a record written under
\* another series: every returned record is a record written for s (stated for
\* from <= to, a read that did not fail, and a queried series s whose own name
\* holds no '/', whatever the names of the other series).
C6_RangeIsolatesSeries ==
    (/\ res.op = "getHistoricalPrices"
     /\ res.ok
     /\ res.from <= res.to
     /\ \A i \in 1..Len(res.pair) : res.pair[i] # "/") =>
        \A i \in 1..Len(res.result) :
            /\ res.result[i].timestamp \in TimestampsOf(res.pair)
            /\ res.result[i] = RecordOf(res.pair, res.result[i].timestamp)

\* C7: a read that immediately follows savePriceData(series, timestamp, ...)
\* yields the record as written: getHistoricalPrices(series, timestamp,
\* timestamp) holds exactly it, and so does getLatestPrice(series) (stated for
\* a write that db.put stored and whose timestamp is the greatest of its
\* series, for a read that did not fail, and for series names without '/').
C7_RoundTrip ==
    [][(/\ lastSaved # <<>>
        /\ lastSaved[1].stored
        /\ SeparatorFree
        /\ res'.ok
        /\ res'.pair = lastSaved[1].pair)
       => LET series == lastSaved[1].pair
              timestamp == lastSaved[1].timestamp
          IN /\ (res'.op = "getHistoricalPrices" /\ res'.from = timestamp
                    /\ res'.to = timestamp)
                 => res'.result = <<RecordOf(series, timestamp)>>
             /\ (res'.op = "getLatestPrice"
                    /\ timestamp = MaxOf(TimestampsOf(series)))
                 => res'.result = <<RecordOf(series, timestamp)>>]_vars

\* C8: savePriceData is an upsert: the key holds the value written last, every
\* other record is as it was, the store holds one record per <<series,
\* timestamp>> written, and writing again what the key holds changes nothing.
C8_UpsertLastWriteWins ==
    [][(lastSaved' # <<>> /\ lastSaved'[1].stored)
       => LET pair == lastSaved'[1].pair
              timestamp == lastSaved'[1].timestamp
              key == Key(pair, timestamp)
          IN /\ key \in DOMAIN store'
             /\ store'[key] = written'[<<pair, timestamp>>]
             /\ \A k \in (DOMAIN store') \ {key} : k \in DOMAIN store /\ store'[k] = store[k]
             /\ DOMAIN store \subseteq DOMAIN store'
             /\ Cardinality(DOMAIN store') = Cardinality(DOMAIN written')
             /\ lastSaved'[1].prior = "same" => store' = store]_vars

\* C8's case: a write replaced the value its key held
C8_Witness ==
    /\ lastSaved # <<>>
    /\ lastSaved[1].stored
    /\ lastSaved[1].prior = "other"
    /\ store[Key(lastSaved[1].pair, lastSaved[1].timestamp)]
           = written[<<lastSaved[1].pair, lastSaved[1].timestamp>>]
    /\ Cardinality(DOMAIN store) = MaxRecords

\* C19: savePriceData returns normally only when db.put stored the record: a
\* call that has returned (it never throws) has left its record in the store.
C19_PutReportsFailure ==
    lastSaved # <<>> =>
        /\ lastSaved[1].stored
        /\ Key(lastSaved[1].pair, lastSaved[1].timestamp) \in DOMAIN store

\* C23: the list getHistoricalPrices returns is in ascending order of
\* timestamp, and it is empty when from > to (stated for a read that did not
\* fail).
C23_RangeIsSorted ==
    (res.op = "getHistoricalPrices" /\ res.ok) =>
        /\ \A i \in 1..Len(res.result), j \in 1..Len(res.result) :
               i < j => res.result[i].timestamp <= res.result[j].timestamp
        /\ res.from > res.to => res.result = <<>>

----------------------------------------------------------------------------
(* The Scheduler's claims *)

\* C1: single-flight: at most one execution of the task is in flight in every
\* reachable state, whatever start(), the timer and runOnDemand() interleave.
C1_SingleFlight == BagCardinality(execs) <= 1

\* C2: coalescing: a triggerDataCollection call that arrives while the run that
\* an earlier call started is still in flight starts no second run.
C2_TriggersCoalesce ==
    [][(/\ event'.name = "triggerDataCollection"
        /\ \E e \in BagToSet(execs) : e.origin = "demand")
       => BagCardinality(execs') = BagCardinality(execs)]_vars

\* C9: start() on a scheduler that is not armed launches exactly one execution
\* and arms one timer, which timerId holds; on an armed scheduler it launches
\* nothing, arms nothing and changes no scheduler state.
C9_StartArmsOnce ==
    [][event'.name = "start"
       => IF isRunning
          THEN /\ execs' = execs
               /\ timers' = timers
               /\ timerId' = timerId
               /\ isRunning' = isRunning
          ELSE /\ BagCardinality(execs') = BagCardinality(execs) + 1
               /\ Cardinality(timers') = Cardinality(timers) + 1
               /\ timers \subseteq timers'
               /\ timerId' \in timers' \ timers
               /\ isRunning']_vars

\* C9's case: start() returned on a scheduler that was armed, after the
\* execution that the first start() launched was over
C9_Witness ==
    /\ event.name = "start"
    /\ isRunning
    /\ timers = {timerId}
    /\ execs = EmptyBag

\* C10: stop() leaves no timer live and the executions in flight as they are,
\* free to take their next step; a tick starts an execution only for the timer
\* that the last start() armed, so none does between stop() and start().
C10_StopSilencesTimer ==
    [][/\ event'.name = "stop"
          => /\ timers' = {}
             /\ ~isRunning'
             /\ execs' = execs
             /\ execs # EmptyBag => ENABLED Progress
       /\ event'.name = "tick"
          => /\ isRunning
             /\ event'.id = timerId
             /\ BagCardinality(execs') = BagCardinality(execs) + 1]_vars

\* C10's case: stop() returned while an execution was in flight
C10_Witness ==
    /\ event.name = "stop"
    /\ ~isRunning
    /\ timers = {}
    /\ execs # EmptyBag

\* C11: an execution that ends in failure (an exception, a failed request or
\* write) leaves isRunning, timerId and the live timer as they were and ends
\* no other execution; after it, an armed scheduler's timer is still live and
\* may fire, and the tick that follows starts a new execution.
C11_FailureContained ==
    [][/\ (event'.name = "settled" /\ event'.run.failed)
          => /\ isRunning' = isRunning
             /\ timerId' = timerId
             /\ timers' = timers
             /\ BagCardinality(execs') = BagCardinality(execs) - 1
       /\ (event.name = "settled" /\ event.run.failed /\ isRunning)
          => /\ timerId \in timers
             /\ ENABLED tick
       /\ (event.name = "settled" /\ event.run.failed /\ event'.name = "tick")
          => BagCardinality(execs') = BagCardinality(execs) + 1]_vars

\* C11's case: an execution that the armed scheduler launched threw
C11_Witness ==
    /\ event.name = "settled"
    /\ event.run.pc = "thrown"
    /\ event.run.origin = "scheduler"
    /\ isRunning
    /\ timerId \in timers

\* C12: the triggerDataCollection handler sends nothing when it is called; a
\* response is sent only in the step in which an execution that runOnDemand()
\* launched ends, and that execution is no longer in flight then.
C12_ResponseAfterRun ==
    [][/\ event'.name = "triggerDataCollection"
          => /\ event'.response = "none"
             /\ BagCardinality(execs') = BagCardinality(execs) + 1
       /\ event'.response # "none"
          => /\ event'.name = "settled"
             /\ event'.run.origin = "demand"
             /\ event'.run.pc \in {"done", "thrown"}
             /\ \E e \in BagToSet(execs) :
                    /\ e.origin = "demand"
                    /\ execs' = execs (-) SetToBag({e})]_vars

\* C12's case: the response went out when the run had saved its data point
C12_Witness ==
    /\ event.name = "settled"
    /\ event.response = "success"
    /\ event.run.puts > 0
    /\ event.run.results = <<>>

\* C13: the response of triggerDataCollection says success exactly when the
\* run it awaited ended without a failure.
C13_SuccessFlagIsTruthful ==
    (event.name = "settled" /\ event.response # "none")
        => (event.response = "success" <=> ~event.run.failed)

\* C16: a run whose feed answers with no instrument calls db.put not once,
\* ends in the step the answer arrives in, which leaves the store as it was,
\* and ends normally: no error logged, success for the trigger that awaits it.
C16_EmptyFeedIsNoOp ==
    [][(event'.name = "settled" /\ event'.run.feed = "empty")
       => /\ store' = store
          /\ written' = written
          /\ lastSaved' = <<>>
          /\ event'.run.puts = 0
          /\ event'.run.saved = <<>>
          /\ event'.run.pc = "done"
          /\ ~event'.run.failed
          /\ event'.run.origin = "demand" => event'.response = "success"]_vars

\* C16's case: the feed was empty when the store held a record
C16_Witness ==
    /\ event.name = "settled"
    /\ event.run.feed = "empty"
    /\ event.response = "success"
    /\ store # <<>>

\* C17: a run that was given instruments and ended without an exception has
\* asked a price for every one of them and called db.put for every data point
\* it resolved, whatever failed on the way; and every data point whose db.put
\* succeeded is in the store, as resolved, when the run ends.
C17_PartialFailureIsolated ==
    [][(event'.name = "settled" /\ event'.run.pc = "done" /\ event'.run.feed = "coins")
       => LET run == event'.run
          IN /\ run.asked = Len(run.instruments)
             /\ run.puts = Len(run.resolved)
             /\ run.results = <<>>
             /\ Len(run.saved) <= run.puts
             /\ \A i \in 1..Len(run.saved) :
                    LET key == Key(run.saved[i].pair, run.saved[i].timestamp)
                    IN /\ key \in DOMAIN store'
                       /\ store'[key] = run.saved[i].value
             /\ ~run.failed => run.saved = run.resolved
                                /\ Len(run.resolved) = Len(run.instruments)]_vars

\* C17's case: of two instruments, the write of the first failed and the
\* second was stored
C17_Witness ==
    /\ event.name = "settled"
    /\ event.run.pc = "done"
    /\ event.run.instruments = <<"A", "B">>
    /\ event.run.puts = 2
    /\ Len(event.run.saved) = 1
    /\ event.run.saved[1].pair = PairOf("B")
    /\ Key(PairOf("B"), event.run.saved[1].timestamp) \in DOMAIN store
    /\ \A t \in Timestamps : Key(PairOf("A"), t) \notin DOMAIN store

\* C21: runOnDemand() starts an execution whether the scheduler is armed or
\* not (the handler may be called in either phase), and the call leaves
\* isRunning, timerId and the live timers as they are.
C21_OnDemandIgnoresTimer ==
    [][/\ event'.name = "triggerDataCollection"
          => /\ BagCardinality(execs') = BagCardinality(execs) + 1
             /\ NewRun("demand") \in BagToSet(execs')
             /\ isRunning' = isRunning
             /\ timerId' = timerId
             /\ timers' = timers
       /\ CanLaunch => ENABLED triggerDataCollection]_vars

\* C21's case: runOnDemand() was called on a scheduler that start() had armed
\* and stop() disarmed
C21_Witness ==
    /\ event.name = "triggerDataCollection"
    /\ ~isRunning
    /\ timerId = 0
    /\ timers = {}
    /\ \E e \in BagToSet(execs) : e.origin = "scheduler"
    /\ NewRun("demand") \in BagToSet(execs)

\* C22: the scheduler is not armed at first; isRunning turns true only in
\* start() and false only in stop(): no tick, trigger or end of an execution,
\* failed or not, changes it.
C22_StateMachine ==
    /\ ~isRunning
    /\ [][/\ (~isRunning /\ isRunning') => event'.name = "start"
          /\ (isRunning /\ ~isRunning') => event'.name = "stop"
          /\ event'.name \in {"tick", "triggerDataCollection", "io", "settled"}
                => isRunning' = isRunning]_vars

\* C22's case: an execution that a trigger launched on the armed scheduler
\* ended in failure and the scheduler is armed
C22_Witness ==
    /\ event.name = "settled"
    /\ event.run.origin = "demand"
    /\ event.run.failed
    /\ isRunning
    /\ timers = {timerId}

\* C25: no step of the service removes a record: the keys the store holds
\* after a step include those it held before, and the store holds a record
\* for every <<series, timestamp>> that was ever stored.
C25_StoreNeverShrinks ==
    [][/\ DOMAIN store \subseteq DOMAIN store'
       /\ \A k \in DOMAIN written' : Key(k[1], k[2]) \in DOMAIN store']_vars

\* C25's case: the third record was stored
C25_Witness ==
    /\ lastSaved # <<>>
    /\ lastSaved[1].stored
    /\ lastSaved[1].prior = "none"
    /\ Cardinality(DOMAIN store) = 3

\* C26: timerId is set exactly when isRunning is true, and then the timer it
\* names is the only live one; otherwise no timer is live; stop() on a
\* scheduler that is not armed changes nothing of the scheduler.
C26_TimerInvariant ==
    /\ [](/\ timerId # 0 <=> isRunning
          /\ isRunning => timers = {timerId}
          /\ ~isRunning => timers = {})
    /\ [][(event'.name = "stop" /\ ~isRunning)
            => /\ isRunning' = isRunning
               /\ timerId' = timerId
               /\ timers' = timers
               /\ execs' = execs]_vars

\* C26's case: start(), stop() and start() again, both executions in flight
C26_Witness ==
    /\ event.name = "start"
    /\ isRunning
    /\ timers = {timerId}
    /\ BagCardinality(execs) = 2
    /\ \A e \in BagToSet(execs) : e.origin = "scheduler"

\* C24: when the caller of triggerDataCollection goes away, the execution it
\* triggered stays in flight where it was and the store is untouched; that
\* execution goes on to its end, and when it ends normally it has called
\* db.put for every data point it resolved and those stored are in the store.
C24_NoCancellation ==
    /\ [][event'.name = "callerGoesAway"
            => /\ BagCardinality(execs') = BagCardinality(execs)
               /\ \E e \in BagToSet(execs) :
                      /\ e.origin = "demand"
                      /\ [e EXCEPT !.origin = "orphan"] \in BagToSet(execs')
               /\ store' = store]_vars
    /\ InFlight("orphan") ~> (event.name = "settled" /\ event.run.origin = "orphan")
    /\ [][(event'.name = "settled" /\ event'.run.origin = "orphan"
              /\ event'.run.pc = "done")
            => /\ event'.run.puts = Len(event'.run.resolved)
               /\ \A i \in 1..Len(event'.run.saved) :
                      LET key == Key(event'.run.saved[i].pair, event'.run.saved[i].timestamp)
                      IN /\ key \in DOMAIN store'
                         /\ store'[key] = event'.run.saved[i].value]_vars

\* C24's case: the execution whose caller had gone away ended with its data
\* point stored
C24_Witness ==
    /\ event.name = "settled"
    /\ event.run.origin = "orphan"
    /\ event.run.pc = "done"
    /\ Len(event.run.saved) = 1
    /\ Key(event.run.saved[1].pair, event.run.saved[1].timestamp) \in DOMAIN store

\* C28: an execution in flight never asked more prices than it was given
\* instruments, nor wrote more than it resolved; every execution in flight
\* ends, whatever the other executions do, and the trigger that awaits an
\* execution is answered (given that feed calls, pauses and writes return).
C28_RunsTerminate ==
    /\ [](\A e \in BagToSet(execs) :
              /\ e.asked <= Len(e.instruments)
              /\ Len(e.resolved) <= e.asked
              /\ e.puts <= Len(e.resolved)
              /\ Len(e.coins) + e.asked <= Len(e.instruments) + 1
              /\ Len(e.results) + e.puts = Len(e.resolved))
    /\ InFlight("scheduler") ~> (event.name = "settled" /\ event.run.origin = "scheduler")
    /\ InFlight("demand") ~> (event.name = "settled" /\ event.run.origin = "demand")
    /\ InFlight("demand") ~> (event.name = "settled" /\ event.response = "success")

\* C28's case: a trigger was answered while an execution of the timer was
\* still in flight
C28_Witness ==
    /\ event.name = "settled"
    /\ event.response = "success"
    /\ event.run.asked = 1
    /\ InFlight("scheduler")
    /\ ~InFlight("demand")

----------------------------------------------------------------------------
(* The query handlers' claims *)

\* C14: getLatestPrices answers a list with one element per series of the
\* request, in the request's order: the i-th read puts at place i the record
\* with the greatest timestamp written for the i-th series, or null when none
\* was written (stated for reads that did not fail and series names without
\* '/').
C14_LatestPricesInOrder ==
    [][/\ (/\ rpc'.method = "getLatestPrices"
           /\ rpc'.reads = rpc.reads + 1
           /\ ~rpc'.failed
           /\ SeparatorFree)
          => LET pair == rpc'.payload.pairs[rpc'.reads]
                 latest == rpc'.list[rpc'.reads]
             IN /\ Len(rpc'.list) = rpc'.reads
                /\ IF TimestampsOf(pair) = {} THEN latest = <<>>
                   ELSE latest = <<RecordOf(pair, MaxOf(TimestampsOf(pair)))>>
       /\ (rpc'.method = "getLatestPrices" /\ rpc'.response = "results")
          => Len(rpc'.list) = Len(rpc'.payload.pairs)]_vars

\* C15: a request that is no JSON, or null, or whose pairs is no array, or
\* (getHistoricalPrices) whose from or to is no number, is answered {error} in
\* the step the handler is called in, by the handler itself, which has read
\* nothing, reads nothing later and leaves the store as it was.
C15_MalformedNeverEscapes ==
    [][(/\ rpc' # rpc
        /\ rpc'.method # "none"
        /\ \/ ~rpc'.payload.parses
           \/ ~rpc'.payload.object
           \/ rpc'.payload.pairsType # "array"
           \/ /\ rpc'.method = "getHistoricalPrices"
              /\ rpc'.payload.fromType # "number" \/ rpc'.payload.toType # "number")
       => /\ rpc'.response = "error"
          /\ rpc'.reads = 0
          /\ rpc'.todo = <<>>
          /\ rpc'.list = <<>>
          /\ rpc'.map = <<>>
          /\ store' = store
          /\ written' = written]_vars

\* C15's case: getHistoricalPrices was called with a list of series and a
\* from that is no number, on a store that holds records
C15_Witness ==
    /\ rpc.method = "getHistoricalPrices"
    /\ rpc.payload.pairsType = "array"
    /\ rpc.payload.pairs # <<>>
    /\ rpc.payload.fromType # "number"
    /\ rpc.response = "error"
    /\ rpc.reads = 0
    /\ store # <<>>

\* C27: no step of a query handler, whether it answers a valid request, reads
\* for it or rejects a malformed one, changes the records of the store, the
\* scheduler's isRunning and timerId, its timers or the executions in flight.
C27_ReadsArePure ==
    [][rpc' # rpc
       => /\ store' = store
          /\ written' = written
          /\ isRunning' = isRunning
          /\ timerId' = timerId
          /\ timers' = timers
          /\ execs' = execs]_vars

\* C27's case: getLatestPrices answered for two series from a store that
\* holds records
C27_Witness ==
    /\ rpc.method = "getLatestPrices"
    /\ rpc.response = "results"
    /\ rpc.reads = 2
    /\ Len(rpc.list) = 2
    /\ rpc.list[1] # <<>>
    /\ Cardinality(DOMAIN store) = MaxRecords

\* C18: a handler one of whose reads failed answers {error}: it answers null
\* or a list for a series only if the store was read without failure.
C18_ReadErrorIsReported ==
    (rpc.response # "none" /\ rpc.failed) => rpc.response = "error"

\* C20: getHistoricalPrices answers a mapping with an entry for every series
\* of the request and for no other, and the read of a series puts under its
\* name exactly the records written for it with from <= timestamp <= to
\* (stated for reads that did not fail and series names without '/').
C20_HistoricalPricesMapping ==
    [][/\ (/\ rpc'.method = "getHistoricalPrices"
           /\ rpc'.reads = rpc.reads + 1
           /\ ~rpc'.failed
           /\ SeparatorFree)
          => LET pair == rpc'.payload.pairs[rpc'.reads]
                 window == {t \in TimestampsOf(pair) :
                               rpc'.payload.from <= t /\ t <= rpc'.payload.to}
             IN /\ pair \in DOMAIN rpc'.map
                /\ ToSet(rpc'.map[pair]) = {RecordOf(pair, t) : t \in window}
                /\ Len(rpc'.map[pair]) = Cardinality(window)
       /\ (rpc'.method = "getHistoricalPrices" /\ rpc'.response = "results"
              /\ ~rpc'.failed)
          => DOMAIN rpc'.map = ToSet(rpc'.payload.pairs)]_vars

====
